---- MODULE Spec2Model ----
(***************************************************************************)
(* Model of food_barcode_scanner.py: FoodProduct.load_info,                *)
(* BarcodeScanner.scan_image and ContinuousProductScanner.scan_products /  *)
(* process_barcodes.  The three external libraries (camera, barcode        *)
(* decoder, OpenFoodFacts client) are the environment: their results are   *)
(* drawn nondeterministically from bounded sets at the point of the call.  *)
(***************************************************************************)
EXTENDS Integers, Sequences, FiniteSets, TLC

\* ---------------------------------------------------------------- bounds
NumBarcodes == 2    \* distinct decodable payloads
NumValues == 1      \* distinct field values a remote record may carry
MaxCodes == 2       \* symbols decoded from one image / one frame
MaxTime == 4        \* clock ticks (seconds) a continuous session is followed
MaxFrames == 2      \* frames acquired in a continuous session

\* ------------------------------------------------------- program constants
NOT_AVAILABLE == "Not available"
scan_interval == 2
FIELDS == <<"product_name", "brands", "ingredients_text">>

\* ------------------------------------------------------------- environment
Barcodes == {ToString(i) : i \in 1..NumBarcodes}
\* payload bytes that are not valid UTF-8
BAD_BYTES == "\\xff"
Payloads == Barcodes \cup {BAD_BYTES}
Values == {"v" \o ToString(i) : i \in 1..NumValues}
FieldNames == {FIELDS[i] : i \in 1..Len(FIELDS)}

\* a product dict as the client returns it: any subset of the requested fields
Dicts == UNION {[S -> Values] : S \in SUBSET FieldNames}
\* what api.product.get can do: return None, return a dict, or raise
ApiOutcomes == {[kind |-> "None"], [kind |-> "raise"]}
                 \cup {[kind |-> "dict", d |-> d] : d \in Dicts}

\* ------------------------------------------------------------ FoodProduct
FoodProduct(barcode) ==
  [barcode |-> barcode, name |-> NOT_AVAILABLE, brand |-> NOT_AVAILABLE,
   ingredients |-> NOT_AVAILABLE]

\* Python truth value of the object api.product.get returned
truthy(product) == product.kind = "dict" /\ DOMAIN product.d # {}

\* dict.get(key, default)
dict_get(d, key, default) == IF key \in DOMAIN d THEN d[key] ELSE default

\* load_info without the test of what the client returned
load_info_unchecked(self, product) ==
  IF product.kind = "dict"
  THEN [self |-> [self EXCEPT !.name = dict_get(product.d, "product_name", self.name),
                              !.brand = dict_get(product.d, "brands", self.brand),
                              !.ingredients = dict_get(product.d, "ingredients_text", self.ingredients)],
        ret |-> TRUE]
  ELSE [self |-> self, ret |-> TRUE]

\* load_info once the client call has returned `product`
load_info(self, product) ==
  IF truthy(product)
  THEN [self |-> [self EXCEPT !.name = dict_get(product.d, "product_name", self.name),
                              !.brand = dict_get(product.d, "brands", self.brand),
                              !.ingredients = dict_get(product.d, "ingredients_text", self.ingredients)],
        ret |-> TRUE]
  ELSE [self |-> self, ret |-> FALSE]

\* bytes.decode("utf-8")
utf8_decode(data) == IF data = BAD_BYTES THEN [ok |-> FALSE] ELSE [ok |-> TRUE, text |-> data]

\* ------------------------------------------------------------------ state
VARIABLES
  \* BarcodeScanner.scan_image
  ipc,            \* "start", "loop", "returned", "raised"
  codes,          \* pyzbar.decode(image): sequence of payloads
  ci,             \* position of the for loop in codes
  product,        \* the FoodProduct of the current iteration
  ret,            \* what load_info returned for it
  response,       \* what api.product.get did for it
  products,       \* the list being collected / returned
  lookups,        \* history: barcode, load_info result and product per symbol
  notices,        \* number of "Product not found" lines printed
  \* ContinuousProductScanner
  pc,             \* "read", "process", "lookup", "show", "stopped", "raised"
  now,            \* time.time()
  last_scan_time,
  current_time,
  barcodes,       \* symbols decoded from the current frame
  idx,            \* position of the for loop in barcodes
  drawn,          \* labels drawn onto the current frame
  rendered,       \* what cv2.imshow displayed last
  cap_releases,   \* number of cap.release() calls
  windows_closed, \* number of cv2.destroyAllWindows() calls
  stop_reason,    \* why the while loop was left
  frames_read,    \* successful cap.read() calls
  api_calls,      \* remote calls made by the session
  sym_calls,      \* remote calls made for the symbol being processed
  scans,          \* the two latest "Scanned:" lines: time read, frame, position
  reports         \* the two latest product / not-found lines: time printed, kind

ivars == <<ipc, codes, ci, product, ret, response, products, lookups, notices>>
cvars == <<pc, now, last_scan_time, current_time, barcodes, idx, drawn, rendered,
           cap_releases, windows_closed, stop_reason, frames_read, api_calls,
           sym_calls, scans, reports>>
vars == <<ivars, cvars>>

RECURSIVE SeqsUpTo(_, _)
SeqsUpTo(S, n) ==
  IF n = 0 THEN {<<>>}
  ELSE LET shorter == SeqsUpTo(S, n - 1)
       IN shorter \cup {Append(q, x) : q \in {r \in shorter : Len(r) = n - 1}, x \in S}

NoProduct == [barcode |-> "", name |-> "", brand |-> "", ingredients |-> ""]
NoResponse == [kind |-> "pending"]

InitImage ==
  /\ ipc = "start" /\ codes = <<>> /\ ci = 1
  /\ product = NoProduct /\ ret = FALSE /\ response = NoResponse
  /\ products = <<>> /\ lookups = <<>> /\ notices = 0

\* ContinuousProductScanner.__init__; the clock starts where the first gate
\* is open, as the epoch clock against last_scan_time = 0 always is
InitContinuous ==
  /\ pc = "read" /\ now = scan_interval /\ last_scan_time = 0 /\ current_time = 0
  /\ barcodes = <<>> /\ idx = 1 /\ drawn = <<>> /\ rendered = <<>>
  /\ cap_releases = 0 /\ windows_closed = 0 /\ stop_reason = "running"
  /\ frames_read = 0 /\ api_calls = 0 /\ sym_calls = 0
  /\ scans = <<>> /\ reports = <<>>

Init == InitImage /\ InitContinuous

\* ------------------------------------------------ BarcodeScanner.scan_image
\* append whatever load_info returned
collect_all(list, p, ok) == Append(list, p)

\* products.append(product) when load_info returned True
collect(list, p, ok) == IF ok THEN Append(list, p) ELSE list

\* Image.open, pyzbar.decode, products = []
ScanDecode ==
  /\ ipc = "start"
  /\ \E cs \in SeqsUpTo(Payloads, MaxCodes) : codes' = cs
  /\ ci' = 1 /\ products' = <<>> /\ ipc' = "loop"
  /\ UNCHANGED <<product, ret, response, lookups, notices>>
  /\ UNCHANGED cvars

\* one iteration of the for loop whose payload does not decode as UTF-8
ScanCodeBadBytes ==
  /\ ipc = "loop" /\ ci <= Len(codes)
  /\ ~utf8_decode(codes[ci]).ok
  /\ ipc' = "raised"
  /\ UNCHANGED <<codes, ci, product, ret, response, products, lookups, notices>>
  /\ UNCHANGED cvars

\* one iteration in which api.product.get raises
ScanCodeRaise ==
  /\ ipc = "loop" /\ ci <= Len(codes)
  /\ utf8_decode(codes[ci]).ok
  /\ product' = FoodProduct(utf8_decode(codes[ci]).text)
  /\ response' = [kind |-> "raise"]
  /\ ipc' = "raised"
  /\ UNCHANGED <<codes, ci, ret, products, lookups, notices>>
  /\ UNCHANGED cvars

\* one iteration in which api.product.get returns
ScanCode ==
  /\ ipc = "loop" /\ ci <= Len(codes)
  /\ utf8_decode(codes[ci]).ok
  /\ \E r \in ApiOutcomes :
       /\ r.kind # "raise"
       /\ LET barcode == utf8_decode(codes[ci]).text
              res == load_info(FoodProduct(barcode), r)
          IN /\ response' = r
             /\ product' = res.self
             /\ ret' = res.ret
             /\ products' = collect(products, res.self, res.ret)
             /\ notices' = IF res.ret THEN notices ELSE notices + 1
             /\ lookups' = Append(lookups, [barcode |-> barcode, ok |-> res.ret,
                                            product |-> res.self])
  /\ ci' = ci + 1
  /\ UNCHANGED <<codes, ipc>>
  /\ UNCHANGED cvars

\* return products
ScanReturn ==
  /\ ipc = "loop" /\ ci > Len(codes)
  /\ ipc' = "returned"
  /\ UNCHANGED <<codes, ci, product, ret, response, products, lookups, notices>>
  /\ UNCHANGED cvars

NextImage ==
  ScanDecode \/ ScanCodeBadBytes \/ ScanCodeRaise \/ ScanCode \/ ScanReturn

SpecImage == Init /\ [][NextImage]_vars

\* ------------------------------------------------ ContinuousProductScanner
Types == {"EAN13"}
Symbols == [data : Payloads, type : Types]

\* annotation moved under the gate
draw_if_gate(frame, barcode_data, barcode_type) ==
  IF now - last_scan_time >= scan_interval
  THEN Append(frame, barcode_data \o " (" \o barcode_type \o ")")
  ELSE frame

\* cv2.rectangle + cv2.putText of f"{barcode_data} ({barcode_type})"
draw(frame, barcode_data, barcode_type) ==
  Append(frame, barcode_data \o " (" \o barcode_type \o ")")

\* history of the two latest entries of a log
Log2(log, e) == IF log = <<>> THEN <<e>> ELSE <<log[Len(log)], e>>

\* gate with a strict comparison
gate_strict(t, last) == t - last > scan_interval

\* current_time - self.last_scan_time >= self.scan_interval
gate(t, last) == t - last >= scan_interval

\* gate moved only when the product was found
new_last_scan_time_on_found(read_time, return_time, last, found) ==
  IF found THEN read_time ELSE last

\* gate never moved
new_last_scan_time_stale(read_time, return_time, last, found) == last

\* self.last_scan_time = current_time
new_last_scan_time(read_time, return_time, last, found) == read_time

\* release forgotten
release_missing(n) == n

\* self.cap.release() after the while loop
release(n) == n + 1

\* end of one for-loop iteration of process_barcodes
Advance ==
  /\ idx' = idx + 1
  /\ pc' = IF idx + 1 > Len(barcodes) THEN "show" ELSE "process"

Running == pc \in {"read", "process", "lookup", "show"}

\* the clock moves while the session blocks or computes
Tick ==
  /\ Running /\ now < MaxTime
  /\ now' = now + 1
  /\ UNCHANGED <<pc, last_scan_time, current_time, barcodes, idx, drawn, rendered,
                 cap_releases, windows_closed, stop_reason, frames_read, api_calls,
                 sym_calls, scans, reports>>
  /\ UNCHANGED ivars

\* cap.read() fails: print, break, release, destroyAllWindows
ReadFail ==
  /\ pc = "read"
  /\ stop_reason' = "grab_failed"
  /\ cap_releases' = release(cap_releases)
  /\ windows_closed' = windows_closed + 1
  /\ pc' = "stopped"
  /\ UNCHANGED <<now, last_scan_time, current_time, barcodes, idx, drawn, rendered,
                 frames_read, api_calls, sym_calls, scans, reports>>
  /\ UNCHANGED ivars

\* cap.read() succeeds and detect_barcodes decodes the frame
ReadFrame ==
  /\ pc = "read" /\ frames_read < MaxFrames
  /\ \E bs \in SeqsUpTo(Symbols, MaxCodes) :
       /\ barcodes' = bs
       /\ pc' = IF bs = <<>> THEN "show" ELSE "process"
  /\ frames_read' = frames_read + 1
  /\ idx' = 1 /\ drawn' = <<>> /\ sym_calls' = 0
  /\ UNCHANGED <<now, last_scan_time, current_time, rendered, cap_releases,
                 windows_closed, stop_reason, api_calls, scans, reports>>
  /\ UNCHANGED ivars

\* barcode.data.decode("utf-8") raises: the exception leaves scan_products
ProcessBadBytes ==
  /\ pc = "process"
  /\ ~utf8_decode(barcodes[idx].data).ok
  /\ pc' = "raised" /\ stop_reason' = "decode_error"
  /\ UNCHANGED <<now, last_scan_time, current_time, barcodes, idx, drawn, rendered,
                 cap_releases, windows_closed, frames_read, api_calls, sym_calls,
                 scans, reports>>
  /\ UNCHANGED ivars

\* annotate the symbol, read the clock, gate closed
ProcessSuppressed ==
  /\ pc = "process"
  /\ utf8_decode(barcodes[idx].data).ok
  /\ drawn' = draw(drawn, utf8_decode(barcodes[idx].data).text, barcodes[idx].type)
  /\ current_time' = now
  /\ ~gate(now, last_scan_time)
  /\ sym_calls' = 0
  /\ Advance
  /\ UNCHANGED <<now, last_scan_time, barcodes, rendered, cap_releases,
                 windows_closed, stop_reason, frames_read, api_calls, scans, reports>>
  /\ UNCHANGED ivars

\* annotate the symbol, read the clock, gate open: print "Scanned", call the API
ProcessLookup ==
  /\ pc = "process"
  /\ utf8_decode(barcodes[idx].data).ok
  /\ drawn' = draw(drawn, utf8_decode(barcodes[idx].data).text, barcodes[idx].type)
  /\ current_time' = now
  /\ gate(now, last_scan_time)
  /\ scans' = Log2(scans, [time |-> now, frame |-> frames_read, index |-> idx])
  /\ api_calls' = api_calls + 1
  /\ sym_calls' = 1
  /\ pc' = "lookup"
  /\ UNCHANGED <<now, last_scan_time, barcodes, idx, rendered, cap_releases,
                 windows_closed, stop_reason, frames_read, reports>>
  /\ UNCHANGED ivars

\* api.product.get raises: the exception leaves load_info, process_barcodes
\* and scan_products
LookupRaise ==
  /\ pc = "lookup"
  /\ pc' = "raised" /\ stop_reason' = "transport_error"
  /\ UNCHANGED <<now, last_scan_time, current_time, barcodes, idx, drawn, rendered,
                 cap_releases, windows_closed, frames_read, api_calls, sym_calls,
                 scans, reports>>
  /\ UNCHANGED ivars

\* api.product.get returns: print the product or the notice, move the gate
LookupReturn ==
  /\ pc = "lookup"
  /\ \E r \in ApiOutcomes :
       /\ r.kind # "raise"
       /\ LET res == load_info(FoodProduct(utf8_decode(barcodes[idx].data).text), r)
          IN /\ reports' = Log2(reports,
                                  [time |-> now,
                                   kind |-> IF res.ret THEN "product" ELSE "not_found"])
             /\ last_scan_time' = new_last_scan_time(current_time, now, last_scan_time, res.ret)
  /\ Advance
  /\ UNCHANGED <<now, current_time, barcodes, drawn, rendered, cap_releases,
                 windows_closed, stop_reason, frames_read, api_calls, sym_calls, scans>>
  /\ UNCHANGED ivars

\* cv2.imshow, cv2.waitKey(1) without the quit key
ShowContinue ==
  /\ pc = "show"
  /\ rendered' = <<[symbols |-> barcodes, labels |-> drawn]>>
  /\ pc' = "read"
  /\ UNCHANGED <<now, last_scan_time, current_time, barcodes, idx, drawn,
                 cap_releases, windows_closed, stop_reason, frames_read, api_calls,
                 sym_calls, scans, reports>>
  /\ UNCHANGED ivars

\* cv2.imshow, cv2.waitKey(1) returns "q": break, release, destroyAllWindows
ShowQuit ==
  /\ pc = "show"
  /\ rendered' = <<[symbols |-> barcodes, labels |-> drawn]>>
  /\ stop_reason' = "quit"
  /\ cap_releases' = release(cap_releases)
  /\ windows_closed' = windows_closed + 1
  /\ pc' = "stopped"
  /\ UNCHANGED <<now, last_scan_time, current_time, barcodes, idx, drawn,
                 frames_read, api_calls, sym_calls, scans, reports>>
  /\ UNCHANGED ivars

Next ==
  \/ Tick \/ ReadFail \/ ReadFrame \/ ProcessBadBytes \/ ProcessSuppressed
  \/ ProcessLookup \/ LookupRaise \/ LookupReturn \/ ShowContinue \/ ShowQuit

Spec == Init /\ [][Next]_vars

\* ================================================================ properties

\* what a field must hold after a lookup that received the dict d
Expected(d, field) == IF field \in DOMAIN d THEN d[field] ELSE NOT_AVAILABLE

\* C1: whenever the remote record exists, load_info returns True and name,
\* brand and ingredients equal the record's product_name, brands and
\* ingredients_text where present and "Not available" where absent, for
\* every subset of fields the record contains, the empty one included.
C1_RecordPopulatesFields ==
  response.kind = "dict" =>
    /\ ret = TRUE
    /\ product.name = Expected(response.d, "product_name")
    /\ product.brand = Expected(response.d, "brands")
    /\ product.ingredients = Expected(response.d, "ingredients_text")

\* C2: whenever no remote record exists, load_info returns False, the three
\* fields stay "Not available" and the barcode is the one it was built with.
C2_NoRecordLeavesDefaults ==
  response.kind = "None" =>
    /\ ret = FALSE
    /\ product.name = NOT_AVAILABLE
    /\ product.brand = NOT_AVAILABLE
    /\ product.ingredients = NOT_AVAILABLE
    /\ product.barcode = codes[ci - 1]

C2_Witness ==
  /\ response.kind = "None" /\ ipc = "returned" /\ notices = 1
  /\ product.barcode = "2"

\* C3: a transport error of the remote call never leaves the lookup as an
\* exception: the continuous session is not ended by it.
C3_TransportErrorHandled == stop_reason # "transport_error"

\* products of the symbols whose lookup succeeded, in detection order
RECURSIVE Succeeded(_)
Succeeded(log) ==
  IF log = <<>> THEN <<>>
  ELSE LET rest == Succeeded(SubSeq(log, 1, Len(log) - 1))
           last == log[Len(log)]
       IN IF last.ok THEN Append(rest, last.product) ELSE rest

\* C4: the list scan_image returns holds exactly one product per symbol
\* whose lookup succeeded, in detection order; N symbols all succeeding give
\* N products, no symbol or no success gives the empty list.
C4_ReturnsSucceededInOrder ==
  ipc = "returned" =>
    /\ Len(lookups) = Len(codes)
    /\ \A i \in 1..Len(codes) : lookups[i].barcode = codes[i]
    /\ products = Succeeded(lookups)
    /\ \A i \in 1..Len(lookups) : lookups[i].product.barcode = codes[i]
    /\ ((\A i \in 1..Len(lookups) : lookups[i].ok) => Len(products) = Len(codes))
    /\ ((\A i \in 1..Len(lookups) : ~lookups[i].ok) => products = <<>>)
    /\ notices + Len(products) = Len(codes)

C4_Witness ==
  /\ ipc = "returned" /\ Len(codes) = 2
  /\ ~lookups[1].ok /\ lookups[2].ok
  /\ Len(products) = 1 /\ products[1].barcode = codes[2] /\ codes[1] # codes[2]

\* C5 as stated: two successive product reports (product or not-found line)
\* are printed at least 2 seconds apart.
C5_ReportsTwoSecondsApart ==
  Len(reports) = 2 => reports[2].time - reports[1].time >= scan_interval

\* C5 amended: the clock readings at which two successive lookups are
\* started are at least 2 seconds apart.
C5_ScansTwoSecondsApart ==
  Len(scans) = 2 => scans[2].time - scans[1].time >= scan_interval

C5_Witness ==
  /\ Len(scans) = 2 /\ Len(reports) = 2
  /\ scans[1].frame # scans[2].frame
  /\ reports[2].time - reports[1].time < scan_interval

\* C6 as stated: within one frame only the symbol at the first position can
\* trigger a lookup.
C6_OnlyFirstSymbolOfFrame ==
  \A i \in 1..Len(scans) : scans[i].index = 1

\* C6 amended: two symbols of the same frame both trigger a lookup only when
\* the clock readings taken for them are at least 2 seconds apart.
C6_SameFrameNeedsInterval ==
  \A i, j \in 1..Len(scans) :
    (i < j /\ scans[i].frame = scans[j].frame) =>
      scans[j].time >= scans[i].time + scan_interval

C6_Witness ==
  /\ Len(scans) = 2 /\ scans[1].frame = scans[2].frame
  /\ scans[1].index = 1 /\ scans[2].index = 2
  /\ pc = "show"

\* C7: the camera is released exactly once when the loop stops on a failed
\* frame acquisition or on the quit key, never while the loop is running,
\* and no frame is acquired after the release.
C7_ReleasedExactlyOnce ==
  /\ [](/\ (stop_reason \in {"grab_failed", "quit"} => cap_releases = 1)
        /\ (Running => cap_releases = 0))
  /\ [][cap_releases >= 1 => (frames_read' = frames_read /\ cap_releases' = cap_releases)]_vars

C7_Witness ==
  /\ pc = "stopped" /\ stop_reason = "quit" /\ cap_releases = 1
  /\ frames_read = 2

\* C8: on every path by which scan_products stops running the camera has
\* been released and the display closed.
C8_ReleasedOnEveryExit ==
  ~Running => (cap_releases >= 1 /\ windows_closed >= 1)

\* C9: for a symbol of process_barcodes, a remote call is made exactly when
\* the time read minus last_scan_time is at least 2; a lookup that returns,
\* found or not, makes one call and sets last_scan_time to the time read; a
\* suppressed symbol makes no call, prints nothing and leaves last_scan_time.
C9_GateEffect ==
  [][/\ (pc = "process" /\ pc' = "lookup") =>
          /\ current_time' = now
          /\ current_time' - last_scan_time >= 2
          /\ api_calls' = api_calls + 1 /\ sym_calls' = 1
     /\ (pc = "process" /\ idx' = idx + 1) =>
          /\ current_time' = now
          /\ current_time' - last_scan_time < 2
          /\ api_calls' = api_calls /\ sym_calls' = 0
          /\ scans' = scans /\ reports' = reports
          /\ last_scan_time' = last_scan_time
     /\ (pc = "lookup" /\ idx' = idx + 1) =>
          /\ last_scan_time' = current_time
          /\ api_calls' = api_calls /\ sym_calls' = 1
          /\ reports' # reports
    ]_vars

C9_Witness ==
  /\ pc = "show" /\ Len(barcodes) = 2 /\ sym_calls = 0
  /\ Len(reports) = 1 /\ reports[1].kind = "not_found"
  /\ last_scan_time = scan_interval /\ current_time = last_scan_time + 1

\* the labels a fully annotated frame carries
Labels(symbols) ==
  [i \in 1..Len(symbols) |-> symbols[i].data \o " (" \o symbols[i].type \o ")"]

\* C10: every symbol of an acquired frame is annotated before the frame is
\* rendered, whether or not the gate lets it be reported.
C10_AllSymbolsAnnotated ==
  /\ pc = "show" => drawn = Labels(barcodes)
  /\ rendered # <<>> => rendered[1].labels = Labels(rendered[1].symbols)
  /\ pc = "lookup" => drawn = Labels(SubSeq(barcodes, 1, idx))
  /\ pc = "process" => drawn = Labels(SubSeq(barcodes, 1, idx - 1))

\* a frame of two symbols rendered after only its second symbol was
\* suppressed by the gate
C10_Witness ==
  /\ pc = "read" /\ rendered # <<>> /\ Len(rendered[1].symbols) = 2
  /\ Len(scans) = 1 /\ scans[1].frame = frames_read /\ scans[1].index = 1
  /\ sym_calls = 0

====
